---- MODULE Spec2Model ----
(***************************************************************************)
(* Model of src/src/index.js: the Blockly grid game.  A learner edits a    *)
(* block program, clicks Run or Reset; runCode schedules a start timer     *)
(* that builds a JS-Interpreter and polls it from a timer loop; the        *)
(* sandboxed program reaches the host through moveForward and              *)
(* waitForSeconds.                                                         *)
(*                                                                         *)
(* Everything runs on the browser's single event loop, so every handler    *)
(* (a click, a timer callback) is one atomic action.                       *)
(***************************************************************************)
EXTENDS Integers, Sequences, FiniteSets, TLC

\* ---------------------------------------------------------------- bounds
\* Largest number of blocks in the workspace (length of a generated program).
MaxLen == 4
\* Largest number of Run clicks in a behaviour (run ids are 1..MaxRuns).
MaxRuns == 2

\* The same two bounds for the behaviours checked for progress.
LiveMaxLen == 2
LiveMaxRuns == 2

\* ------------------------------------------------------ program constants
ROWS == 3
COLS == 3
START_STATE == [x |-> 0, y |-> 0]
GOAL_STATE == [x |-> 0, y |-> 2]

\* Statements of a generated program: a Move Forward block, a wait block,
\* and a statement that raises an uncaught error inside the sandbox.
Ops == {"move", "wait", "fault"}

\* Texts passed to window.alert by the host.
MSG_OVERSHOOT == "uh oh! You have gone too far! Please try again."
MSG_GOAL == "You have reached the goal!"
MSG_NOT_GOAL == "You have not reached the goal. Please try again."

RunIds == 1..MaxRuns

\* `let myInterpreter = null`
NULL == [run |-> 0, code |-> <<>>, pc |-> 1, paused |-> FALSE, status |-> "null"]

\* `new Interpreter(latestCode, initApi)`: a fresh evaluator at the first
\* statement.  run names the Run click whose start timer built it.
NewInterpreter(r, code) ==
    [run |-> r, code |-> code, pc |-> 1, paused |-> FALSE, status |-> "ready"]

VARIABLES
    workspace,      \* the learner's blocks, as the program text they generate
    runButtonDisabled, \* runButton.disabled
    myInterpreter,  \* the module-level evaluator handle, or NULL
    runnerPid,      \* id of the last polling timer set (0 before any)
    current_state,  \* [x, y]
    inErrorState,
    timers,         \* pending start and polling timers, in firing order
    waits,          \* evaluators whose waitForSeconds continuation is pending
    nRuns,          \* number of Run clicks so far
    \* history variables
    cancelled,      \* runs requested before the latest resetState
    uninterrupted,  \* the latest run was requested with no start timer
                    \* pending and no click has arrived since
    calls,          \* per run: host state after each moveForward call made
    alerts,         \* per run: texts alerted by its host calls and callback
    completions,    \* per run: number of checkGoalReached invocations
    ev              \* the handler that ran last, the run whose evaluator it
                    \* executed (0 if none), whether that changed the
                    \* position or the error flag, and whether the handler
                    \* is a reset that directly follows a reset

vars == <<workspace, runButtonDisabled, myInterpreter, runnerPid,
          current_state, inErrorState, timers, waits, nRuns,
          cancelled, uninterrupted, calls, alerts, completions, ev>>

hist == <<calls, alerts, completions>>

\* Value of ev after a handler that ran no evaluator.
NoEval(kind) == [kind |-> kind, run |-> 0, mutated |-> FALSE,
                 again |-> FALSE]

\* -------------------------------------------------------- host functions

\* moveForward(): result is [cs, err, msgs].
moveForward_noEdgeCheck(cs, err) ==
    IF err THEN [cs |-> cs, err |-> err, msgs |-> <<>>]
    ELSE IF cs.y < COLS
         THEN [cs |-> [cs EXCEPT !.y = @ + 1], err |-> err, msgs |-> <<>>]
         ELSE [cs |-> cs, err |-> TRUE, msgs |-> <<MSG_OVERSHOOT>>]

moveForward_noErrorLatch(cs, err) ==
    IF cs.y < COLS - 1
    THEN [cs |-> [cs EXCEPT !.y = @ + 1], err |-> err, msgs |-> <<>>]
    ELSE [cs |-> cs, err |-> TRUE, msgs |-> <<MSG_OVERSHOOT>>]

moveForward(cs, err) ==
    IF err THEN [cs |-> cs, err |-> err, msgs |-> <<>>]
    ELSE IF cs.y < COLS - 1
         THEN [cs |-> [cs EXCEPT !.y = @ + 1], err |-> err, msgs |-> <<>>]
         ELSE [cs |-> cs, err |-> TRUE, msgs |-> <<MSG_OVERSHOOT>>]

\* checkGoalReached(): the texts it alerts.
checkGoalReached_ignoresError(cs, err) ==
    IF cs.x = GOAL_STATE.x /\ cs.y = GOAL_STATE.y
    THEN <<MSG_GOAL>>
    ELSE <<MSG_NOT_GOAL>>

checkGoalReached_wrongGoal(cs, err) ==
    IF err THEN <<>>
    ELSE IF cs.x = GOAL_STATE.x /\ cs.y = GOAL_STATE.y + 1
         THEN <<MSG_GOAL>>
         ELSE <<MSG_NOT_GOAL>>

checkGoalReached(cs, err) ==
    IF err THEN <<>>
    ELSE IF cs.x = GOAL_STATE.x /\ cs.y = GOAL_STATE.y
         THEN <<MSG_GOAL>>
         ELSE <<MSG_NOT_GOAL>>

\* ------------------------------------------------------------ evaluator

\* run() that does not honour the paused flag.
RECURSIVE InterpreterRun_ignoresPause(_, _, _, _, _)
InterpreterRun_ignoresPause(I, cs, err, trace, msgs) ==
    LET out(J, waited, threw) ==
            [I |-> J, cs |-> cs, err |-> err, trace |-> trace, msgs |-> msgs,
             waited |-> waited, threw |-> threw, hasMore |-> J.paused]
    IN
    IF I.status # "ready" THEN out(I, FALSE, FALSE)
    ELSE IF I.pc > Len(I.code)
         THEN out([I EXCEPT !.status = "done", !.paused = FALSE], FALSE, FALSE)
    ELSE LET op == I.code[I.pc] IN
         IF op = "move"
         THEN LET m == moveForward(cs, err) IN
              InterpreterRun_ignoresPause([I EXCEPT !.pc = @ + 1], m.cs, m.err,
                             Append(trace, [y |-> m.cs.y, err |-> m.err]),
                             msgs \o m.msgs)
         ELSE IF op = "wait"
         THEN out([I EXCEPT !.pc = @ + 1, !.paused = TRUE], TRUE, FALSE)
         ELSE out([I EXCEPT !.status = "faulted"], FALSE, TRUE)

\* run() that executes a single statement, as step() does.
InterpreterRun_singleStep(I, cs, err, trace, msgs) ==
    LET out(J, c, e, t, ms, waited, threw, more) ==
            [I |-> J, cs |-> c, err |-> e, trace |-> t, msgs |-> ms,
             waited |-> waited, threw |-> threw, hasMore |-> more]
    IN
    IF I.paused \/ I.status # "ready"
    THEN out(I, cs, err, trace, msgs, FALSE, FALSE, I.paused)
    ELSE IF I.pc > Len(I.code)
         THEN out([I EXCEPT !.status = "done"], cs, err, trace, msgs,
                  FALSE, FALSE, FALSE)
    ELSE LET op == I.code[I.pc] IN
         IF op = "move"
         THEN LET m == moveForward(cs, err) IN
              out([I EXCEPT !.pc = @ + 1], m.cs, m.err,
                  Append(trace, [y |-> m.cs.y, err |-> m.err]),
                  msgs \o m.msgs, FALSE, FALSE, TRUE)
         ELSE IF op = "wait"
         THEN out([I EXCEPT !.pc = @ + 1, !.paused = TRUE], cs, err, trace,
                  msgs, TRUE, FALSE, TRUE)
         ELSE out([I EXCEPT !.status = "faulted"], cs, err, trace, msgs,
                  FALSE, TRUE, FALSE)

\* myInterpreter.run(): execute statements until the program ends, blocks
\* in an asynchronous host call, or throws.  The result carries the
\* evaluator, the host state, the host snapshots after each moveForward
\* call, the texts alerted, whether a wait timer was set and whether run()
\* threw.  hasMore is the value run() returns (the paused flag).  On an
\* evaluator that is blocked, finished or has thrown, run() executes
\* nothing and returns the paused flag.
RECURSIVE InterpreterRun(_, _, _, _, _)
InterpreterRun(I, cs, err, trace, msgs) ==
    LET out(J, waited, threw) ==
            [I |-> J, cs |-> cs, err |-> err, trace |-> trace, msgs |-> msgs,
             waited |-> waited, threw |-> threw, hasMore |-> J.paused]
    IN
    IF I.paused \/ I.status # "ready" THEN out(I, FALSE, FALSE)
    ELSE IF I.pc > Len(I.code)
         THEN out([I EXCEPT !.status = "done"], FALSE, FALSE)
    ELSE LET op == I.code[I.pc] IN
         IF op = "move"
         THEN LET m == moveForward(cs, err) IN
              InterpreterRun([I EXCEPT !.pc = @ + 1], m.cs, m.err,
                             Append(trace, [y |-> m.cs.y, err |-> m.err]),
                             msgs \o m.msgs)
         ELSE IF op = "wait"
         THEN out([I EXCEPT !.pc = @ + 1, !.paused = TRUE], TRUE, FALSE)
         ELSE out([I EXCEPT !.status = "faulted"], FALSE, TRUE)

\* ---------------------------------------------------------------- timers

StartTimer(r, code) == [kind |-> "start", run |-> r, code |-> code]
RunnerTimer(r) == [kind |-> "runner", run |-> r, code |-> <<>>]

InsertAt(s, p, e) == SubSeq(s, 1, p - 1) \o <<e>> \o SubSeq(s, p, Len(s))

\* Positions at which a new 1 ms start timer may fire: after every start
\* timer already pending (same delay, set earlier), before or after a
\* pending 10 ms polling timer.
StartPositions(s) ==
    {p \in 1..(Len(s) + 1) :
        \A i \in 1..Len(s) : s[i].kind = "start" => i < p}

\* clearTimeout applied to the oldest pending polling timer, whatever its id.
ClearRunner_dropsOldest(s, pid) ==
    LET idx == {i \in 1..Len(s) : s[i].kind = "runner"} IN
    IF idx = {} THEN s
    ELSE LET first == CHOOSE i \in idx : \A j \in idx : i <= j IN
         SubSeq(s, 1, first - 1) \o SubSeq(s, first + 1, Len(s))

\* clearTimeout(runnerPid)
ClearRunner(s, pid) ==
    SelectSeq(s, LAMBDA t : ~(t.kind = "runner" /\ t.run = pid))

PendingStarts(s) == SelectSeq(s, LAMBDA t : t.kind = "start")
PendingRunners(s) == SelectSeq(s, LAMBDA t : t.kind = "runner")

\* ------------------------------------------------------------------ Init

Init ==
    /\ workspace = <<>>
    /\ runButtonDisabled = FALSE
    /\ myInterpreter = NULL
    /\ runnerPid = 0
    /\ current_state = START_STATE
    /\ inErrorState = FALSE
    /\ timers = <<>>
    /\ waits = {}
    /\ nRuns = 0
    /\ cancelled = {}
    /\ uninterrupted = FALSE
    /\ calls = [r \in RunIds |-> <<>>]
    /\ alerts = [r \in RunIds |-> <<>>]
    /\ completions = [r \in RunIds |-> 0]
    /\ ev = NoEval("init")

\* --------------------------------------------------------------- actions

\* The learner adds a block at the end of the program.  Nothing is added
\* after a faulting statement: what follows it never executes.
EditWorkspace ==
    /\ Len(workspace) < MaxLen
    /\ IF workspace = <<>> THEN TRUE
       ELSE workspace[Len(workspace)] # "fault"
    /\ \E op \in Ops : workspace' = Append(workspace, op)
    /\ ev' = NoEval("edit")
    /\ UNCHANGED <<runButtonDisabled, myInterpreter, runnerPid, current_state,
                   inErrorState, timers, waits, nRuns, cancelled,
                   uninterrupted, hist>>

\* resetState() without `inErrorState = false`.
ResetClick_keepsErrorFlag ==
    /\ current_state' = START_STATE
    /\ timers' = ClearRunner(timers, runnerPid)
    /\ runButtonDisabled' = FALSE
    /\ myInterpreter' = NULL
    /\ cancelled' = 1..nRuns
    /\ uninterrupted' = FALSE
    /\ ev' = [NoEval("reset") EXCEPT !.again = (ev.kind = "reset")]
    /\ UNCHANGED <<workspace, runnerPid, waits, nRuns, hist, inErrorState>>

\* Click on the reset button: resetState(), which calls resetStepUi().
ResetClick ==
    /\ current_state' = START_STATE
    /\ timers' = ClearRunner(timers, runnerPid)
    /\ runButtonDisabled' = FALSE
    /\ myInterpreter' = NULL
    /\ inErrorState' = FALSE
    /\ cancelled' = 1..nRuns
    /\ uninterrupted' = FALSE
    /\ ev' = [NoEval("reset") EXCEPT !.again = (ev.kind = "reset")]
    /\ UNCHANGED <<workspace, runnerPid, waits, nRuns, hist>>

\* Click on the run button: runCode().  A disabled button delivers no
\* click.  resetState() runs first, so the `!myInterpreter` test always
\* passes: the code is generated, the button disabled and the start
\* timer set.
RunClick ==
    /\ ~runButtonDisabled
    /\ nRuns < MaxRuns
    /\ nRuns' = nRuns + 1
    /\ current_state' = START_STATE
    /\ inErrorState' = FALSE
    /\ myInterpreter' = NULL
    /\ runButtonDisabled' = TRUE
    /\ \E p \in StartPositions(ClearRunner(timers, runnerPid)) :
          timers' = InsertAt(ClearRunner(timers, runnerPid), p,
                             StartTimer(nRuns + 1, workspace))
    /\ cancelled' = 1..nRuns
    /\ uninterrupted' = (Len(PendingStarts(timers)) = 0)
    /\ ev' = NoEval("run")
    /\ UNCHANGED <<workspace, runnerPid, waits, hist>>

\* runner() that does not re-schedule itself while the program is blocked.
Runner_noReschedule(loop, I, rest, kind) ==
    IF I.status = "null"
    THEN /\ ev' = NoEval(kind)
         /\ timers' = rest
         /\ UNCHANGED <<myInterpreter, runnerPid, current_state,
                        inErrorState, waits, hist>>
    ELSE LET res == InterpreterRun(I, current_state, inErrorState, <<>>, <<>>)
             r == I.run
             complete == ~res.threw /\ ~res.hasMore
             done == IF complete THEN checkGoalReached(res.cs, res.err)
                     ELSE <<>>
         IN
         /\ myInterpreter' = res.I
         /\ current_state' = res.cs
         /\ inErrorState' = res.err
         /\ waits' = IF res.waited THEN waits \cup {r} ELSE waits
         /\ timers' = rest
         /\ UNCHANGED runnerPid
         /\ calls' = [calls EXCEPT ![r] = @ \o res.trace]
         /\ alerts' = [alerts EXCEPT ![r] = @ \o res.msgs \o done]
         /\ completions' = [completions EXCEPT
                              ![r] = IF complete THEN @ + 1 ELSE @]
         /\ ev' = [kind |-> kind, run |-> r,
                    mutated |-> (res.cs # current_state
                                 \/ res.err # inErrorState),
                    again |-> FALSE]

\* The body of runner() for the polling loop `loop`, applied to the
\* evaluator I (the value of myInterpreter when runner() is entered) and
\* the pending timers rest.
Runner(loop, I, rest, kind) ==
    IF I.status = "null"
    THEN /\ ev' = NoEval(kind)
         /\ timers' = rest
         /\ UNCHANGED <<myInterpreter, runnerPid, current_state,
                        inErrorState, waits, hist>>
    ELSE LET res == InterpreterRun(I, current_state, inErrorState, <<>>, <<>>)
             r == I.run
             complete == ~res.threw /\ ~res.hasMore
             done == IF complete THEN checkGoalReached(res.cs, res.err)
                     ELSE <<>>
         IN
         /\ myInterpreter' = res.I
         /\ current_state' = res.cs
         /\ inErrorState' = res.err
         /\ waits' = IF res.waited THEN waits \cup {r} ELSE waits
         /\ IF ~res.threw /\ res.hasMore
            THEN /\ timers' = Append(rest, RunnerTimer(loop))
                 /\ runnerPid' = loop
            ELSE /\ timers' = rest
                 /\ UNCHANGED runnerPid
         /\ calls' = [calls EXCEPT ![r] = @ \o res.trace]
         /\ alerts' = [alerts EXCEPT ![r] = @ \o res.msgs \o done]
         /\ completions' = [completions EXCEPT
                              ![r] = IF complete THEN @ + 1 ELSE @]
         /\ ev' = [kind |-> kind, run |-> r,
                    mutated |-> (res.cs # current_state
                                 \/ res.err # inErrorState),
                    again |-> FALSE]

\* The start timer set by runCode fires: build the evaluator, call runner().
StartTimerFires ==
    /\ timers # <<>>
    /\ Head(timers).kind = "start"
    /\ Runner(Head(timers).run,
              NewInterpreter(Head(timers).run, Head(timers).code),
              Tail(timers), "start")
    /\ UNCHANGED <<workspace, runButtonDisabled, nRuns, cancelled,
                   uninterrupted>>

\* A polling timer set by runner() fires: runner() again, on whatever
\* evaluator the module-level handle holds now.
RunnerTimerFires ==
    /\ timers # <<>>
    /\ Head(timers).kind = "runner"
    /\ Runner(Head(timers).run, myInterpreter, Tail(timers), "poll")
    /\ UNCHANGED <<workspace, runButtonDisabled, nRuns, cancelled,
                   uninterrupted>>

\* The timer set by waitForSeconds fires: the continuation resumes the
\* evaluator that made the call, whether or not the handle still holds it.
WaitTimerFires ==
    /\ \E r \in waits :
          /\ waits' = waits \ {r}
          /\ myInterpreter' = IF myInterpreter.run = r
                              THEN [myInterpreter EXCEPT !.paused = FALSE]
                              ELSE myInterpreter
          /\ ev' = NoEval("wake")
    /\ UNCHANGED <<workspace, runButtonDisabled, runnerPid, current_state,
                   inErrorState, timers, nRuns, cancelled, uninterrupted,
                   hist>>

Next ==
    \/ EditWorkspace
    \/ ResetClick
    \/ RunClick
    \/ StartTimerFires
    \/ RunnerTimerFires
    \/ WaitTimerFires

Spec == Init /\ [][Next]_vars

\* The same handlers, with the learner held to shorter programs and fewer
\* run requests: the behaviours over which progress is checked.
LiveNext ==
    \/ (Len(workspace) < LiveMaxLen /\ EditWorkspace)
    \/ ResetClick
    \/ (nRuns < LiveMaxRuns /\ RunClick)
    \/ StartTimerFires
    \/ RunnerTimerFires
    \/ WaitTimerFires

\* Every timer that is set and not cleared fires: the event loop runs the
\* callback of each pending setTimeout.  Clicks are under no obligation.
FairSpec ==
    /\ Init
    /\ [][LiveNext]_vars
    /\ WF_vars(StartTimerFires)
    /\ WF_vars(RunnerTimerFires)
    /\ WF_vars(WaitTimerFires)

\* ------------------------------------------------------------ properties

Min(a, b) == IF a < b THEN a ELSE b

\* The host calls of a program, in order, without its waits.
HostCalls(code) == SelectSeq(code, LAMBDA op : op # "wait")
\* A program of exactly k moveForward calls (waits apart).
IsMoves(code, k) ==
    /\ Len(HostCalls(code)) = k
    /\ \A i \in 1..k : HostCalls(code)[i] = "move"

Texts(r) == {alerts[r][i] : i \in 1..Len(alerts[r])}

\* The latest run was requested with no earlier start timer pending, no
\* click has arrived since, and its program has run to completion.
CompletedUninterrupted ==
    /\ uninterrupted
    /\ myInterpreter.run = nRuns
    /\ myInterpreter.status = "done"

\* C1: a run cancelled by a reset makes no change to the position or the
\* error flag afterwards, and the first moveForward call of any run finds
\* the host in the start state.
C1_CancelledRunNeverMutates ==
    /\ ev.run \in cancelled => ~ev.mutated
    /\ \A r \in RunIds :
          calls[r] # <<>> =>
              calls[r][1] = [y |-> START_STATE.y + 1, err |-> FALSE]

\* C2: the only evaluator that ever executes is the one of the most recent
\* run request; no second evaluator gets to execute.
C2_OnlyLatestEvaluatorExecutes ==
    ev.run # 0 => ev.run = nRuns

\* C3: a run request arriving while the handle holds a live evaluator
\* leaves the evaluator, the position and the error flag as they were and
\* schedules no new evaluator.
C3_RunRequestIgnoredWhileActive ==
    [][(nRuns' = nRuns + 1 /\ myInterpreter.status = "ready")
         => /\ myInterpreter' = myInterpreter
            /\ current_state' = current_state
            /\ inErrorState' = inErrorState
            /\ PendingStarts(timers') = PendingStarts(timers)]_vars

\* C4: checkGoalReached is invoked exactly once for a run whose program
\* has completed, and never more than once for any run.
C4_CompletionExactlyOnce ==
    /\ \A r \in RunIds : completions[r] <= 1
    /\ myInterpreter.status = "done" => completions[myInterpreter.run] = 1

\* C5: once a run has completed or faulted the handle is cleared and the
\* run button is enabled again.
C5_HandleReleasedAfterCompletion ==
    myInterpreter.status \in {"done", "faulted"} =>
        /\ myInterpreter = NULL
        /\ ~runButtonDisabled

\* C6: after a reset, the evaluator of a run requested before it is never
\* started or resumed (and so its completion callback never runs).
C6_ResetCancelsRun ==
    ev.run \notin cancelled

\* C7: an uninterrupted run of a program with k moveForward calls ends at
\* y = min(k, COLS-1), with the error flag set exactly when k > COLS-1.
C7_FinalPosition ==
    CompletedUninterrupted =>
        LET code == myInterpreter.code
            k == Len(HostCalls(code))
        IN IsMoves(code, k) =>
              /\ current_state = [x |-> START_STATE.x,
                                  y |-> Min(START_STATE.y + k, COLS - 1)]
              /\ inErrorState = (START_STATE.y + k > COLS - 1)

C7_Witness ==
    /\ CompletedUninterrupted
    /\ IsMoves(myInterpreter.code, COLS)
    /\ "wait" \in {myInterpreter.code[i] : i \in 1..Len(myInterpreter.code)}
    /\ current_state.y = COLS - 1
    /\ inErrorState

\* C8 as stated: three moveForward calls end at (0,2) with the error flag
\* clear and the goal-reached message.
C8_ThreeMovesReachGoal ==
    (CompletedUninterrupted /\ IsMoves(myInterpreter.code, 3)) =>
        /\ current_state = [x |-> 0, y |-> 2]
        /\ ~inErrorState
        /\ MSG_GOAL \in Texts(nRuns)

\* C8 amended: three moveForward calls end at (0,2) with the error flag
\* set, having emitted the overshoot message and no completion message.
C8_ThreeMovesOvershoot ==
    (CompletedUninterrupted /\ IsMoves(myInterpreter.code, 3)) =>
        /\ current_state = [x |-> 0, y |-> 2]
        /\ inErrorState
        /\ alerts[nRuns] = <<MSG_OVERSHOOT>>

C8_Witness ==
    /\ CompletedUninterrupted
    /\ myInterpreter.code = <<"move", "move", "move">>
    /\ completions[nRuns] = 1
    /\ alerts[nRuns] = <<MSG_OVERSHOOT>>

\* C9 as stated: two moveForward calls end at (0,1) with the
\* goal-not-reached message.
C9_TwoMovesMissGoal ==
    (CompletedUninterrupted /\ IsMoves(myInterpreter.code, 2)) =>
        /\ current_state = [x |-> 0, y |-> 1]
        /\ MSG_NOT_GOAL \in Texts(nRuns)

\* C9 amended: two moveForward calls end at (0,2) with the error flag
\* clear, and the completion message is the goal-reached one.
C9_TwoMovesReachGoal ==
    (CompletedUninterrupted /\ IsMoves(myInterpreter.code, 2)) =>
        /\ current_state = [x |-> 0, y |-> 2]
        /\ ~inErrorState
        /\ Texts(nRuns) = {MSG_GOAL}

C9_Witness ==
    /\ CompletedUninterrupted
    /\ myInterpreter.code = <<"move", "move">>
    /\ current_state = GOAL_STATE
    /\ alerts[nRuns] = <<MSG_GOAL>>

\* C10: with four moveForward calls the error flag is clear after the
\* second call and set after the third, the fourth call changes nothing,
\* and the run completes having emitted the overshoot message only.
C10_FourMoves ==
    (CompletedUninterrupted /\ IsMoves(myInterpreter.code, 4)) =>
        /\ Len(calls[nRuns]) = 4
        /\ ~calls[nRuns][2].err
        /\ calls[nRuns][3] = [y |-> 2, err |-> TRUE]
        /\ calls[nRuns][4] = calls[nRuns][3]
        /\ completions[nRuns] >= 1
        /\ alerts[nRuns] = <<MSG_OVERSHOOT>>

C10_Witness ==
    /\ CompletedUninterrupted
    /\ myInterpreter.code = <<"move", "move", "move", "move">>
    /\ completions[nRuns] = 1
    /\ inErrorState

\* C11: once the error flag is set, every further moveForward call of the
\* run leaves the position and the flag as they are and alerts nothing,
\* and no handler other than a reset or a run request changes the
\* position, clears the flag or alerts a text while the flag is set.
C11_ErrorLatched ==
    /\ [](\A r \in RunIds :
            \A i \in 1..(Len(calls[r]) - 1) :
                calls[r][i].err => calls[r][i + 1] = calls[r][i])
    /\ [][(inErrorState /\ ev'.kind \notin {"reset", "run"})
            => /\ inErrorState'
               /\ current_state' = current_state
               /\ alerts' = alerts]_vars

\* A freshly built evaluator has just made moveForward calls with the flag
\* already set, and nothing changed.
C11_Witness ==
    /\ ev.kind = "start"
    /\ ev.run # 0
    /\ calls[ev.run] # <<>>
    /\ inErrorState
    /\ ~ev.mutated

\* C12: while the continuation of a wait has not fired the evaluator is
\* blocked: a resumption changes nothing, makes no host call, runs no
\* completion callback and re-schedules the polling timer; a completion
\* callback runs only in a handler entered with no continuation of the
\* run pending.
C12_BlockedUntilContinuation ==
    /\ [](myInterpreter.paused => myInterpreter.run \in waits)
    /\ [](myInterpreter.status = "done" => myInterpreter.run \notin waits)
    /\ [][(myInterpreter.paused /\ ev'.kind = "poll")
            => /\ myInterpreter' = myInterpreter
               /\ hist' = hist
               /\ current_state' = current_state
               /\ inErrorState' = inErrorState
               /\ \E i \in 1..Len(timers') :
                     timers'[i] = RunnerTimer(runnerPid')]_vars
    /\ [][\A r \in RunIds :
            completions'[r] # completions[r]
                => r \notin waits /\ r \notin waits']_vars

\* A resumption has just found the evaluator blocked in its first
\* statement, a wait, with a moveForward call next.
C12_Witness ==
    /\ ev.kind = "poll"
    /\ ev.run = myInterpreter.run
    /\ myInterpreter.paused
    /\ myInterpreter.pc = 2
    /\ Len(myInterpreter.code) >= 2
    /\ myInterpreter.code[2] = "move"
    /\ calls[ev.run] = <<>>

\* C13: once the program has faulted no resumption is pending, the
\* completion callback has not run and never runs, and the position and
\* the error flag are those left by the run's last moveForward call.
C13_FaultStopsRun ==
    myInterpreter.status = "faulted" =>
        /\ PendingRunners(timers) = <<>>
        /\ completions[myInterpreter.run] = 0
        /\ calls[myInterpreter.run] # <<>> =>
              calls[myInterpreter.run][Len(calls[myInterpreter.run])]
                  = [y |-> current_state.y, err |-> inErrorState]

\* C14: every requested run is eventually cancelled by a reset, or faults,
\* or has its completion callback invoked.
C14_RunCompletes ==
    \A r \in RunIds :
        (nRuns >= r) ~>
            \/ r \in cancelled
            \/ completions[r] > 0
            \/ (myInterpreter.run = r /\ myInterpreter.status = "faulted")

\* A run that blocked in a wait and made a host call after it has
\* completed without being cancelled.
C14_Witness ==
    /\ nRuns \notin cancelled
    /\ nRuns > 0
    /\ completions[nRuns] > 0
    /\ ev.kind = "poll"
    /\ myInterpreter.code = <<"wait", "move">>

\* No evaluator handle and the run button enabled.
Idle == myInterpreter = NULL /\ ~runButtonDisabled

\* C15: a reset that directly follows a reset, and a reset in Idle, leave
\* the position, the error flag, the handle, the pending timers, the
\* recorded timer id and the run button as they are.
C15_ResetIdempotent ==
    [][(ev'.kind = "reset" /\ (ev.kind = "reset" \/ Idle))
         => UNCHANGED <<current_state, inErrorState, myInterpreter, timers,
                        runnerPid, runButtonDisabled>>]_vars

\* A second reset in a row has been handled while a polling timer of an
\* earlier loop is still pending.
C15_Witness ==
    /\ ev.kind = "reset"
    /\ ev.again
    /\ PendingRunners(timers) # <<>>

\* A program of moveForward calls only.
OnlyMoves(code) == \A i \in 1..Len(code) : code[i] = "move"

\* C16: an evaluator of a program of moveForward calls only is never left
\* blocked or unfinished by a handler: the resumption that built it made
\* every call and invoked the completion callback, and no polling timer
\* of its loop is ever set.
C16_SyncCompletesAtOnce ==
    (myInterpreter.status # "null" /\ OnlyMoves(myInterpreter.code)) =>
        LET r == myInterpreter.run IN
        /\ myInterpreter.status = "done"
        /\ ~myInterpreter.paused
        /\ Len(calls[r]) = Len(myInterpreter.code)
        /\ completions[r] >= 1
        /\ (ev.kind = "start" /\ ev.run = r) => completions[r] = 1
        /\ \A i \in 1..Len(timers) : timers[i] # RunnerTimer(r)
        /\ runnerPid # r

C16_Witness ==
    /\ ev.kind = "start"
    /\ ev.run = myInterpreter.run
    /\ myInterpreter.status = "done"
    /\ Len(myInterpreter.code) >= 1
    /\ OnlyMoves(myInterpreter.code)
    /\ Len(calls[ev.run]) = Len(myInterpreter.code)
    /\ completions[ev.run] = 1
    /\ timers = <<>>

\* C17: the position is always on the grid, x = 0 and 0 <= y <= COLS-1,
\* in every state and after every moveForward call.
C17_PositionOnGrid ==
    /\ current_state.x = 0
    /\ current_state.y \in 0..(COLS - 1)
    /\ \A r \in RunIds :
          \A i \in 1..Len(calls[r]) : calls[r][i].y \in 0..(COLS - 1)

\* A handler has just made more moveForward calls than the grid has
\* columns to cross.
C17_Witness ==
    /\ ev.kind = "start"
    /\ ev.mutated
    /\ Len(calls[ev.run]) > COLS
    /\ current_state.y = COLS - 1

\* C18: the error flag is only ever set with the position at the last
\* column, in every state and after every moveForward call.
C18_ErrorOnlyAtLastColumn ==
    /\ inErrorState => current_state.y = COLS - 1
    /\ \A r \in RunIds :
          \A i \in 1..Len(calls[r]) :
              calls[r][i].err => calls[r][i].y = COLS - 1

\* A resumption after a wait has just set the flag.
C18_Witness ==
    /\ ev.kind = "poll"
    /\ ev.mutated
    /\ inErrorState
    /\ current_state.y = COLS - 1

\* C19: at most one polling timer is pending at any time, and it is the
\* one recorded in runnerPid.
C19_OnePollingLoop ==
    /\ Len(PendingRunners(timers)) <= 1
    /\ \A i \in 1..Len(timers) :
          timers[i].kind = "runner" => timers[i].run = runnerPid

\* C20: a handler that invokes checkGoalReached alerts at most one
\* completion text: the goal-reached one exactly when the flag is clear
\* and the position is the goal, the goal-not-reached one exactly when the
\* flag is clear and the position is not the goal, none when the flag is
\* set; unless the handler also made moveForward calls the position and
\* the flag are unchanged.  A handler that does not invoke it alerts no
\* completion text.
C20_CheckGoalReached ==
    [][\A r \in RunIds :
         LET added == SubSeq(alerts'[r], Len(alerts[r]) + 1, Len(alerts'[r]))
             final == {i \in 1..Len(added) :
                          added[i] \in {MSG_GOAL, MSG_NOT_GOAL}}
             texts == {added[i] : i \in final}
         IN
         IF completions'[r] = completions[r] + 1
         THEN /\ Cardinality(final) <= 1
              /\ (MSG_GOAL \in texts)
                    <=> (~inErrorState' /\ current_state' = GOAL_STATE)
              /\ (MSG_NOT_GOAL \in texts)
                    <=> (~inErrorState' /\ current_state' # GOAL_STATE)
              /\ calls'[r] = calls[r] =>
                    /\ current_state' = current_state
                    /\ inErrorState' = inErrorState
         ELSE /\ completions'[r] = completions[r]
              /\ final = {}]_vars

\* A resumption after a wait has set the flag and completed: the callback
\* ran and alerted nothing.
C20_Witness ==
    /\ ev.kind = "poll"
    /\ ev.run # 0
    /\ completions[ev.run] = 1
    /\ inErrorState
    /\ alerts[ev.run] = <<MSG_OVERSHOOT>>

====
